---- MODULE Spec2Model ----
(***************************************************************************)
(* Marvin: an ICMP Echo (ping) probe engine.                               *)
(*                                                                         *)
(* The module models the packet codec (models.py), the payload providers   *)
(* (provider.py), the transport's receive-with-budget (network.py), the    *)
(* echo session with its response collection (executor.py) and the ping    *)
(* command that owns a session (commands.py).                              *)
(*                                                                         *)
(* Conventions.                                                            *)
(*  - A byte string is a sequence of integers 0..255.                      *)
(*  - Time is counted in ticks of 10 ms (0.010 s); elapsed times are       *)
(*    integers, running averages and ratios are exact rationals            *)
(*    [num, den] (the code uses binary floating point).                    *)
(*  - A value shown in milliseconds is counted in hundredths of a          *)
(*    millisecond (2 decimals), so 20.0 ms is 2000.                        *)
(*  - A raw frame is the record [size, typ, code, checksum, ident, seq,    *)
(*    payload]: size is the length of the datagram, the other fields are   *)
(*    the values struct reads at bytes 20..27 and the bytes from 28 on.    *)
(*    Header fields are packed and unpacked in the same (native) byte      *)
(*    order, so a field's value stands for its two bytes.                  *)
(***************************************************************************)
EXTENDS Integers, Sequences, FiniteSets, TLC

VARIABLES
    pc,                 \* position of the caller / of Communicator.run
    mode,               \* behaviour of the network behind the transport
    provider,           \* Communicator.provider (a payload provider object)
    match_payloads,     \* the match_payloads argument of run
    seed_id,            \* Communicator.seed_id
    responses,          \* Communicator.responses (a ResponseList object)
    identifier,         \* run: local identifier
    sequence,           \* run: local sequence
    payload,            \* run: loop variable payload
    payload_bytes_sent, \* run: local payload_bytes_sent
    time_left,          \* listen_for: local time_left
    raw_received,       \* listen_for: local raw_received
    wire,               \* packets handed to socket.sendto by the current run
    error,              \* the exception that left run, if any
    runs,               \* completed calls of run on this session
    input,              \* argument of a function applied on its own
    output,             \* its result
    socket,             \* SocketInterface.socket: the transport's raw socket
    ids                 \* SeedIds.ids: the registry of active identifiers

vars == <<pc, mode, provider, match_payloads, seed_id, responses, identifier,
          sequence, payload, payload_bytes_sent, time_left, raw_received,
          wire, error, runs, input, output, socket, ids>>

(***************************************************************************)
(* Bounds of the model.                                                    *)
(***************************************************************************)
\* Largest number of payloads a provider of the open-network session yields.
MaxPayloads == 2
\* The session's declared timeout, in ticks.
Timeout == 2
\* A session is run a second time only when its provider yields at most this.
MaxRerunPayloads == 1
\* Longest response list built by appending alone.
MaxLen == 3
\* Largest elapsed time of a response appended alone, in ticks.
MaxElapsed == 3
\* Calls of run on one session.
MaxRuns == 2
\* Attempts of the session whose destination answers or stays silent.
LossyAttempts == 4
\* Largest start and end size of a Sweep provider built on its own.
MaxSweepSize == 5
\* Largest count and size of a ping command.
MaxCommandCount == 1
\* Largest count of a Repeat provider and longest list of a List provider
\* built on their own.
MaxRepeatCount == 3
\* Loops run over one provider built on its own.
MaxIterations == 2
\* Longest byte string given to checksum on its own.
MaxMessageLen == 6

(***************************************************************************)
(* Program constants.                                                      *)
(***************************************************************************)
EchoReply_type_id == 0
DestinationUnreachable_type_id == 3
EchoRequest_type_id == 8
\* Offset of the ICMP header in a received frame (raw[20:28]).
HeaderOffset == 20
\* End of the ICMP header in a received frame (raw[20:28], raw[28:]).
HeaderEnd == 28
\* 0xFFFF, the largest sequence number / the identifier mask.
MaxSequence == 65535
\* Default number of attempts of a ping command.
DefaultCount == 5

\* None, and a value where None may stand: an empty or one-element sequence.
None == <<>>
Some(x) == <<x>>

(***************************************************************************)
(* Arithmetic helpers.                                                     *)
(***************************************************************************)
RECURSIVE GCD(_, _)
GCD(a, b) == IF b = 0 THEN a ELSE GCD(b, a % b)

Abs(x) == IF x < 0 THEN -x ELSE x

\* The rational n/d in lowest terms, d > 0.
Rat(n, d) ==
    LET g == GCD(Abs(n), Abs(d))
        s == IF d < 0 THEN -1 ELSE 1
    IN [num |-> (s * n) \div g, den |-> (s * d) \div g]

RatOfInt(n) == [num |-> n, den |-> 1]
RatAdd(x, y) == Rat(x.num * y.den + y.num * x.den, x.den * y.den)
RatSub(x, y) == Rat(x.num * y.den - y.num * x.den, x.den * y.den)
RatMulInt(x, n) == Rat(x.num * n, x.den)
RatDivInt(x, n) == Rat(x.num, x.den * n)

\* round(): nearest integer of n/d (d > 0), ties to the even one.
RoundHalfEven(n, d) ==
    LET q == n \div d
        r == n % d
    IN IF 2 * r < d THEN q
       ELSE IF 2 * r > d THEN q + 1
       ELSE IF q % 2 = 0 THEN q ELSE q + 1

(***************************************************************************)
(* utils.py                                                                *)
(***************************************************************************)
\* round(seconds * 1000, 2) of a rational number of ticks, in hundredths of
\* a millisecond: one tick is 0.010 s, that is 1000 hundredths of a ms.
represent_seconds_in_milliseconds(ticks) ==
    RoundHalfEven(ticks.num * 1000, ticks.den)

(***************************************************************************)
(* provider.py: the payload providers.  One record shape for the three     *)
(* classes; a class leaves the fields it does not have empty.              *)
(***************************************************************************)
ProviderObject(kind, payloads, pattern, count, start_size, end_size, counter) ==
    [kind |-> kind, payloads |-> payloads, pattern |-> pattern, count |-> count,
     start_size |-> start_size, end_size |-> end_size, counter |-> counter]

List_init(payload_list) ==
    ProviderObject("List", payload_list, <<>>, 0, 0, 0, 0)

Repeat_init(pattern, count) ==
    ProviderObject("Repeat", <<>>, pattern, count, 0, 0, 0)

\* while not len(self.pattern) >= end_size: self.pattern += pattern
RECURSIVE ExtendPattern(_, _, _)
ExtendPattern(current, pattern, end_size) ==
    IF Len(current) >= end_size THEN current
    ELSE ExtendPattern(current \o pattern, pattern, end_size)

\* Sweep.__init__ that also refuses equal start and end sizes.
Sweep_init_strict(pattern, start_size, end_size) ==
    IF start_size >= end_size
    THEN [raised |-> "ValueError: end_size must be greater or equal than start_size"]
    ELSE IF Len(pattern) = 0
    THEN [raised |-> "ValueError: pattern cannot be empty"]
    ELSE ProviderObject("Sweep", <<>>, ExtendPattern(pattern, pattern, end_size),
                        0, start_size, end_size, start_size)

\* Sweep.__init__: a provider object, or the ValueError it raises.
Sweep_init(pattern, start_size, end_size) ==
    IF start_size > end_size
    THEN [raised |-> "ValueError: end_size must be greater or equal than start_size"]
    ELSE IF Len(pattern) = 0
    THEN [raised |-> "ValueError: pattern cannot be empty"]
    ELSE ProviderObject("Sweep", <<>>, ExtendPattern(pattern, pattern, end_size),
                        0, start_size, end_size, start_size)

\* __iter__ that restarts every provider at 0.
Provider_iter_from_zero(p) == [p EXCEPT !.counter = 0]

\* __iter__: restart the provider.
Provider_iter(p) ==
    IF p.kind = "Sweep" THEN [p EXCEPT !.counter = p.start_size]
    ELSE [p EXCEPT !.counter = 0]

\* __next__ that rewinds the provider when it signals exhaustion.
Provider_next_rewinding(p) ==
    IF p.kind = "List" THEN
        IF p.counter < Len(p.payloads)
        THEN [stop |-> FALSE, value |-> p.payloads[p.counter + 1],
              provider |-> [p EXCEPT !.counter = p.counter + 1]]
        ELSE [stop |-> TRUE, value |-> <<>>, provider |-> [p EXCEPT !.counter = 0]]
    ELSE IF p.kind = "Repeat" THEN
        IF p.counter < p.count
        THEN [stop |-> FALSE, value |-> p.pattern,
              provider |-> [p EXCEPT !.counter = p.counter + 1]]
        ELSE [stop |-> TRUE, value |-> <<>>, provider |-> [p EXCEPT !.counter = 0]]
    ELSE
        IF p.counter <= p.end_size
        THEN [stop |-> FALSE, value |-> SubSeq(p.pattern, 1, p.counter),
              provider |-> [p EXCEPT !.counter = p.counter + 1]]
        ELSE [stop |-> TRUE, value |-> <<>>,
              provider |-> [p EXCEPT !.counter = p.start_size]]

\* __next__: [stop, value, provider]; stop stands for StopIteration.
Provider_next(p) ==
    IF p.kind = "List" THEN
        IF p.counter < Len(p.payloads)
        THEN [stop |-> FALSE, value |-> p.payloads[p.counter + 1],
              provider |-> [p EXCEPT !.counter = p.counter + 1]]
        ELSE [stop |-> TRUE, value |-> <<>>, provider |-> p]
    ELSE IF p.kind = "Repeat" THEN
        IF p.counter < p.count
        THEN [stop |-> FALSE, value |-> p.pattern,
              provider |-> [p EXCEPT !.counter = p.counter + 1]]
        ELSE [stop |-> TRUE, value |-> <<>>, provider |-> p]
    ELSE
        IF p.counter <= p.end_size
        THEN [stop |-> FALSE, value |-> SubSeq(p.pattern, 1, p.counter),
              provider |-> [p EXCEPT !.counter = p.counter + 1]]
        ELSE [stop |-> TRUE, value |-> <<>>, provider |-> p]

(***************************************************************************)
(* models.py: the packet codec.                                            *)
(***************************************************************************)
\* Two's complement byte of a signed char, and back (struct format 'b').
ByteOfSigned(v) == IF v < 0 THEN v + 256 ELSE v
SignedOfByte(b) == IF b >= 128 THEN b - 256 ELSE b
\* The two bytes of a signed short as an unsigned value (struct format 'h').
WordOfSigned(v) == IF v < 0 THEN v + 65536 ELSE v

\* Sum of the 16-bit chunks (message[i] << 8) + message[i + 1], i even.
RECURSIVE SumChunks(_, _)
SumChunks(message, i) ==
    IF i + 1 > Len(message) THEN 0
    ELSE message[i] * 256 + message[i + 1] + SumChunks(message, i + 2)

\* while amount >> 16: amount = (amount & 0xFFFF) + (amount >> 16)
RECURSIVE FoldCarry(_)
FoldCarry(amount) ==
    IF amount \div 65536 = 0 THEN amount
    ELSE FoldCarry((amount % 65536) + (amount \div 65536))

\* PacketBase.checksum with the carry added on the right once only.
checksum_single_fold(message) ==
    LET odd == IF Len(message) % 2 = 1 THEN message[Len(message)] * 256 ELSE 0
        sum == SumChunks(message, 1) + odd
        amount == IF sum \div 65536 = 0 THEN sum
                  ELSE (sum % 65536) + (sum \div 65536)
        check == -amount - 1
    IN ((check % 256) * 256) + ((check \div 256) % 256)

\* PacketBase.checksum.
checksum(message) ==
    LET odd == IF Len(message) % 2 = 1 THEN message[Len(message)] * 256 ELSE 0
        amount == FoldCarry(SumChunks(message, 1) + odd)
        \* ~amount, seen through the 16-bit masks below
        check == 65535 - amount
    \* ((check << 8) & 0xFF00) | ((check >> 8) & 0x00FF)
    IN ((check % 256) * 256) + ((check \div 256) % 256)

\* ICMPPacket.__init__ with an ICMPBaseType class as message type, given
\* here by its type_id.
ICMPPacket(message_type, payload_, identifier_, sequence_number) ==
    [message_type |-> message_type,
     message_code |-> 0,
     payload |-> payload_,
     identifier |-> identifier_ % 65536,
     sequence_number |-> sequence_number,
     received_checksum |-> None]

\* ICMPPacket(): Types.EchoReply, payload b'1', identifier os.getpid() (the
\* process id, here 4242), sequence_number 1.
ICMPPacket_default == ICMPPacket(EchoReply_type_id, <<49>>, 4242, 1)

\* struct.pack('bbHHh', ...) accepts these values and raises struct.error
\* for any other.
CanPack(self, cksum) ==
    /\ self.message_type \in -128..127
    /\ self.message_code \in -128..127
    /\ cksum \in 0..65535
    /\ self.identifier \in 0..65535
    /\ self.sequence_number \in -32768..32767

\* The 8 bytes struct.pack('bbHHh', ...) gives on a little-endian build.
HeaderBytes(self, cksum) ==
    <<ByteOfSigned(self.message_type), ByteOfSigned(self.message_code),
      cksum % 256, cksum \div 256,
      self.identifier % 256, self.identifier \div 256,
      WordOfSigned(self.sequence_number) % 256,
      WordOfSigned(self.sequence_number) \div 256>>

\* ICMPPacket.expected_checksum (defined when the header packs).
expected_checksum(self) == checksum(HeaderBytes(self, 0) \o self.payload)

\* ICMPPacket.packet: the packet's bytes as header fields and payload, or
\* the struct.error of a field that does not fit its format.
packet(self) ==
    IF ~CanPack(self, 0) THEN [raised |-> "struct.error"]
    ELSE [typ |-> ByteOfSigned(self.message_type),
          code |-> ByteOfSigned(self.message_code),
          checksum |-> expected_checksum(self),
          ident |-> self.identifier,
          seq |-> WordOfSigned(self.sequence_number),
          payload |-> self.payload]

\* A received frame carrying packet bytes p behind a 20-byte outer header.
Frame(p) ==
    [size |-> HeaderEnd + Len(p.payload), typ |-> p.typ, code |-> p.code,
     checksum |-> p.checksum, ident |-> p.ident, seq |-> p.seq,
     payload |-> p.payload]

\* A frame of the given size, too short for raw[20:28] to hold 8 bytes.
ShortFrame(size) ==
    [size |-> size, typ |-> 0, code |-> 0, checksum |-> 0, ident |-> 0,
     seq |-> 0, payload |-> <<>>]

\* ICMPPacket.unpack: the packet object after unpacking raw into it, or the
\* struct.error of a buffer raw[20:28] shorter than 8 bytes.  The unpacked
\* sequence goes to a local and the object keeps its sequence_number.
unpack(self, raw) ==
    IF raw.size - HeaderOffset < HeaderEnd - HeaderOffset
    THEN [raised |-> "struct.error"]
    ELSE [message_type |-> SignedOfByte(raw.typ),
          message_code |-> SignedOfByte(raw.code),
          payload |-> raw.payload,
          identifier |-> raw.ident,
          sequence_number |-> self.sequence_number,
          received_checksum |-> Some(raw.checksum)]

Raised(x) == "raised" \in DOMAIN x

\* A packet object whose message_code attribute was assigned after
\* ICMPPacket.__init__ (which sets it to 0 for an ICMPBaseType class; a
\* tuple or an int as message type makes issubclass raise TypeError).
ICMPPacket_with_code(message_type, message_code, payload_, identifier_, sequence_number) ==
    [ICMPPacket(message_type, payload_, identifier_, sequence_number)
        EXCEPT !.message_code = message_code]

\* ICMPPacket.is_valid: [value |-> result], or the struct.error of a header
\* that does not pack.
is_valid(self) ==
    IF self.received_checksum = None THEN [value |-> TRUE]
    ELSE IF ~CanPack(self, 0) THEN [raised |-> "struct.error"]
    ELSE [value |-> expected_checksum(self) = self.received_checksum[1]]

\* ICMPPacket.generate_from_raw.
generate_from_raw(raw) == unpack(ICMPPacket_default, raw)

\* The value v of a header field or payload byte with bit i flipped.
Flip(v, i) == IF (v \div (2 ^ i)) % 2 = 1 THEN v - (2 ^ i) ELSE v + (2 ^ i)

\* The number of bits of the packet bytes p: 8 header bytes and the payload.
BitsOf(p) == 8 * (8 + Len(p.payload))

\* The packet bytes p with bit k flipped, k counted from the low bit of the
\* first byte: byte 0 is the type, byte 1 the code, bytes 2-3 the checksum,
\* 4-5 the identifier, 6-7 the sequence number (low byte first), the rest
\* the payload.
FlipBit(p, k) ==
    LET b == k \div 8
        i == k % 8
    IN IF b = 0 THEN [p EXCEPT !.typ = Flip(@, i)]
       ELSE IF b = 1 THEN [p EXCEPT !.code = Flip(@, i)]
       ELSE IF b \in {2, 3} THEN [p EXCEPT !.checksum = Flip(@, 8 * (b - 2) + i)]
       ELSE IF b \in {4, 5} THEN [p EXCEPT !.ident = Flip(@, 8 * (b - 4) + i)]
       ELSE IF b \in {6, 7} THEN [p EXCEPT !.seq = Flip(@, 8 * (b - 6) + i)]
       ELSE [p EXCEPT !.payload[b - 7] = Flip(@, i)]

(***************************************************************************)
(* executor.py: Message, Response.                                         *)
(***************************************************************************)
Message(destination, packet_, source) ==
    [destination |-> destination, packet |-> packet_, source |-> source]

Response(message, time_elapsed) ==
    [message |-> message, time_elapsed |-> time_elapsed]

unreachable_messages ==
    <<"Network Unreachable",
      "Host Unreachable",
      "Protocol Unreachable",
      "Port Unreachable",
      "Fragmentation Required",
      "Source Route Failed",
      "Network Unknown",
      "Host Unknown",
      "Source Host Isolated",
      "Communication with Destination Network is Administratively Prohibited",
      "Communication with Destination Host is Administratively Prohibited",
      "Network Unreachable for ToS",
      "Host Unreachable for ToS",
      "Communication Administratively Prohibited",
      "Host Precedence Violation",
      "Precedence Cutoff in Effect">>

\* list[index] of Python: a negative index counts from the end, an index
\* outside -len..len-1 raises IndexError.
ListIndex(list, index) ==
    IF index >= 0 /\ index < Len(list) THEN list[index + 1]
    ELSE IF index < 0 /\ index >= -Len(list) THEN list[Len(list) + index + 1]
    ELSE "IndexError"

\* error_message with the success test on the type alone.
error_message_type_only(self) ==
    IF self.message = None THEN Some("No response")
    ELSE IF self.message[1].packet.message_type = 0 THEN None
    ELSE IF self.message[1].packet.message_type = 3
    THEN LET label == ListIndex(unreachable_messages,
                                self.message[1].packet.message_code)
         IN IF label = "IndexError" THEN Some("Unreachable") ELSE Some(label)
    ELSE Some("Network Error")

\* Response.error_message: None (no error) or the label.  self.message is
\* None or Some(message).
error_message(self) ==
    IF self.message = None THEN Some("No response")
    ELSE IF self.message[1].packet.message_type = 0
            /\ self.message[1].packet.message_code = 0
    THEN None
    ELSE IF self.message[1].packet.message_type = 3
    THEN LET label == ListIndex(unreachable_messages,
                                self.message[1].packet.message_code)
         IN IF label = "IndexError" THEN Some("Unreachable") ELSE Some(label)
    ELSE Some("Network Error")

\* Response.success.
Response_success(self) == error_message(self) = None

\* Response.time_elapsed_ms.
time_elapsed_ms(self) ==
    represent_seconds_in_milliseconds(RatOfInt(self.time_elapsed))

(***************************************************************************)
(* executor.py: ResponseList.                                              *)
(***************************************************************************)
\* ResponseList(): no initial set.
ResponseList_init ==
    [responses |-> <<>>,
     rtt_avg |-> RatOfInt(0), rtt_min |-> 0, rtt_max |-> 0,
     packets_lost |-> RatOfInt(0)]

\* clear_responses that keeps the stored responses.
clear_responses_keep(self) == self

\* ResponseList.clear_responses.
clear_responses(self) == [self EXCEPT !.responses = <<>>]

\* The running average without the weight n - 1 of the old average.
NextAverage_unweighted(rtt_avg, n, time_elapsed) ==
    RatDivInt(RatAdd(rtt_avg, RatOfInt(time_elapsed)), n)

\* The running average after an append that is not the first.
NextAverage(rtt_avg, n, time_elapsed) ==
    RatDivInt(RatAdd(RatMulInt(rtt_avg, n - 1), RatOfInt(time_elapsed)), n)

\* The loss ratio after an append.
NextPacketsLost(lost, n, succeeded) ==
    RatAdd(lost,
           RatDivInt(IF succeeded THEN RatOfInt(0)
                     ELSE RatSub(RatOfInt(1), lost), n))

\* ResponseList.append.
append(self, response) ==
    LET rs == Append(self.responses, response)
        n == Len(rs)
        e == response.time_elapsed
    IN [responses |-> rs,
        rtt_avg |-> IF n = 1 THEN RatOfInt(e)
                    ELSE NextAverage(self.rtt_avg, n, e),
        rtt_max |-> IF n = 1 THEN e
                    ELSE IF e > self.rtt_max THEN e ELSE self.rtt_max,
        rtt_min |-> IF n = 1 THEN e
                    ELSE IF e < self.rtt_min THEN e ELSE self.rtt_min,
        packets_lost |-> NextPacketsLost(self.packets_lost, n,
                                         Response_success(response))]

\* ResponseList(initial_set): a new collection with the Responses of
\* initial_set appended in order.
RECURSIVE AppendAll(_, _)
AppendAll(self, initial_set) ==
    IF initial_set = <<>> THEN self
    ELSE AppendAll(append(self, Head(initial_set)), Tail(initial_set))

ResponseList_of(initial_set) == AppendAll(ResponseList_init, initial_set)

\* ResponseList.__len__.
ResponseCountOf(self) == Len(self.responses)

rtt_min_ms(self) == represent_seconds_in_milliseconds(RatOfInt(self.rtt_min))
rtt_max_ms(self) == represent_seconds_in_milliseconds(RatOfInt(self.rtt_max))
rtt_avg_ms(self) == represent_seconds_in_milliseconds(self.rtt_avg)

\* success_list = [response.success for response in self.__responses]
success_list(self) ==
    [i \in 1..Len(self.responses) |-> Response_success(self.responses[i])]

\* success_list.count(True)
CountSuccess(self) ==
    Cardinality({i \in 1..Len(self.responses) : success_list(self)[i] = TRUE})

\* The members of SuccessRequest.
SuccessRequest == {"one", "most", "all"}

\* success with a majority test that takes exactly half as a majority.
ResponseList_success_half(self, option) ==
    IF option = "one"
    THEN [value |-> \E i \in 1..Len(self.responses) : success_list(self)[i] = TRUE]
    ELSE IF option = "most"
    THEN IF Len(self.responses) = 0 THEN [raised |-> "ZeroDivisionError"]
         ELSE [value |-> 2 * CountSuccess(self) >= Len(self.responses)]
    ELSE IF option = "all"
    THEN [value |-> ~\E i \in 1..Len(self.responses) : success_list(self)[i] = FALSE]
    ELSE [value |-> FALSE]

\* ResponseList.success: [value |-> result], or the ZeroDivisionError that
\* count / len raises for 'most' on an empty list.
\*   one:  True in success_list
\*   most: success_list.count(True) / len(success_list) > .5
\*   all:  False not in success_list
ResponseList_success(self, option) ==
    IF option = "one"
    THEN [value |-> \E i \in 1..Len(self.responses) : success_list(self)[i] = TRUE]
    ELSE IF option = "most"
    THEN IF Len(self.responses) = 0 THEN [raised |-> "ZeroDivisionError"]
         ELSE LET ratio == Rat(CountSuccess(self), Len(self.responses))
              IN [value |-> 2 * ratio.num > ratio.den]
    ELSE IF option = "all"
    THEN [value |-> ~\E i \in 1..Len(self.responses) : success_list(self)[i] = FALSE]
    ELSE [value |-> FALSE]

(***************************************************************************)
(* executor.py: Communicator.                                              *)
(***************************************************************************)
\* increase_seq without the increment.
increase_seq_same(sequence_number) ==
    IF sequence_number > MaxSequence THEN 1 ELSE sequence_number

\* Communicator.increase_seq.
increase_seq(sequence_number) ==
    IF sequence_number + 1 > MaxSequence THEN 1 ELSE sequence_number + 1

\* send_ping builds this request.
EchoRequestPacket(packet_id, sequence_number, payload_) ==
    ICMPPacket(EchoRequest_type_id, payload_, packet_id, sequence_number)

\* The match without the test on the message type.
Matched_any_type(response, packet_id, payload_pattern) ==
    /\ response.identifier = packet_id
    /\ IF payload_pattern = None THEN TRUE
       ELSE payload_pattern[1] = response.payload

\* The match with the test on the message type turned round.
Matched_requests_only(response, packet_id, payload_pattern) ==
    /\ response.identifier = packet_id
    /\ response.message_type = EchoRequest_type_id
    /\ IF payload_pattern = None THEN TRUE
       ELSE payload_pattern[1] = response.payload

\* listen_for, lines 273-279: the unpacked packet is the reply waited for.
Matched(response, packet_id, payload_pattern) ==
    /\ response.identifier = packet_id
    /\ response.message_type # EchoRequest_type_id
    /\ IF payload_pattern = None THEN TRUE
       ELSE payload_pattern[1] = response.payload

\* listen_for, line 280: the elapsed time of a matched Response.
ElapsedAtMatch(timeout, time_left_) == timeout - time_left_

\* listen_for, line 282: the Response of an attempt that ran out of time.
TimedOutResponse(timeout, time_left_) == Response(None, timeout)

\* A receive that restarts the budget from the full timeout.
TimeLeftAfter_restart(time_left_, time_elapse_in_select) ==
    Timeout - time_elapse_in_select

\* receive_packet, line 123: time_left -= time_elapse_in_select.
TimeLeftAfter(time_left_, time_elapse_in_select) ==
    time_left_ - time_elapse_in_select

\* run, lines 294-297: the payload pattern handed to listen_for.
PayloadPattern == IF ~match_payloads THEN None ELSE Some(payload_bytes_sent)

(***************************************************************************)
(* The network behind the transport.                                       *)
(***************************************************************************)
\* Address the frames come from.
SourceAddress == "198.51.100.7"

\* Checksum a replying host puts in its packet.
ReplyChecksum(typ, code, ident, seq, payload_) ==
    checksum(<<typ, code, 0, 0, ident % 256, ident \div 256,
               seq % 256, seq \div 256>> \o payload_)

ReplyFrame(typ, code, ident, seq, payload_) ==
    Frame([typ |-> typ, code |-> code,
           checksum |-> ReplyChecksum(typ, code, ident, seq, payload_),
           ident |-> ident, seq |-> seq, payload |-> payload_])

\* The destination's answer to a request p: p with type Echo Reply.
EchoOf(p) == ReplyFrame(EchoReply_type_id, 0, p.ident, p.seq, p.payload)

\* A payload no provider of the model yields.
ForeignPayload == <<120>>

\* Frames an open network may deliver while request p is waited for: echo
\* replies, destination-unreachable messages and looped-back requests, for
\* this session or for another one, with the payload sent or another one,
\* and a truncated frame.
OpenFrames(p) ==
    {ReplyFrame(t, 0, i, p.seq, pl) :
        t \in {EchoReply_type_id, DestinationUnreachable_type_id,
               EchoRequest_type_id},
        i \in {p.ident, 0},
        pl \in {p.payload, ForeignPayload}}
    \cup {ShortFrame(HeaderEnd - 1)}

\* A frame with the low bit of its checksum field changed in transit.
Corrupted(frame) == [frame EXCEPT !.checksum = Flip(@, 0)]

\* The earlier attempts of the run that ended without a reply.
LateAttempts ==
    {k \in 1..(Len(wire) - 1) : responses.responses[k].message = None}

\* Frames an unreliable path may deliver while the last request is waited
\* for: the destination's answer to it, that answer damaged in transit, and
\* the delayed answer to an earlier request whose attempt has timed out.
UnreliableFrames ==
    {EchoOf(wire[Len(wire)]), Corrupted(EchoOf(wire[Len(wire)]))}
    \cup {EchoOf(wire[k]) : k \in LateAttempts}

\* Mode "echo": the destination answers every request in time.  Mode
\* "lossy": it answers or stays silent.  Mode "open": any of the frames above
\* may arrive, or none.  Mode "unreliable": answers may be damaged, late or
\* lost.
DeliverableFrames ==
    IF mode \in {"echo", "lossy"} THEN {EchoOf(wire[Len(wire)])}
    ELSE IF mode = "unreliable" THEN UnreliableFrames
    ELSE OpenFrames(wire[Len(wire)])

(***************************************************************************)
(* The session: Communicator.run step by step.                             *)
(***************************************************************************)
\* The payloads a provider yields when iterated from the start.
RECURSIVE YieldFrom(_)
YieldFrom(p) ==
    LET r == Provider_next(p)
    IN IF r.stop THEN <<>> ELSE <<r.value>> \o YieldFrom(r.provider)

Yields(p) == YieldFrom(Provider_iter(p))

OpenProviders ==
    {Repeat_init(<<97>>, n) : n \in 0..MaxPayloads}
    \cup {List_init([i \in 1..MaxPayloads |-> <<97 + i>>])}
    \cup {Sweep_init(<<97, 98>>, 1, MaxPayloads)}

\* b'', the empty result of receive_packet.
NoData == ShortFrame(0)

NoError == "none"

InitSession ==
    /\ pc = "idle"
    /\ \/ /\ mode = "open"
          /\ provider \in OpenProviders
       \/ /\ mode = "echo"
          /\ provider = Repeat_init(<<97>>, DefaultCount)
       \/ /\ mode = "lossy"
          /\ provider = Repeat_init(<<97>>, LossyAttempts)
    /\ match_payloads \in BOOLEAN
    /\ seed_id = MaxSequence
    /\ responses = ResponseList_init
    /\ identifier = 0
    /\ sequence = 0
    /\ payload = <<>>
    /\ payload_bytes_sent = <<>>
    /\ time_left = 0
    /\ raw_received = NoData
    /\ wire = <<>>
    /\ error = NoError
    /\ runs = 0
    /\ input = <<>>
    /\ output = <<>>
    /\ socket = "open"
    /\ ids = <<>>

\* run, lines 287-291: clear the responses, set identifier and sequence, and
\* start iterating the provider.
Run_start ==
    /\ pc = "idle"
    /\ \/ runs = 0
       \/ /\ runs < MaxRuns
          /\ Len(Yields(provider)) <= MaxRerunPayloads
    /\ responses' = clear_responses(responses)
    /\ identifier' = seed_id
    /\ sequence' = 1
    /\ provider' = Provider_iter(provider)
    /\ wire' = <<>>
    /\ pc' = "loop"
    /\ UNCHANGED <<mode, match_payloads, seed_id, payload, payload_bytes_sent,
                   time_left, raw_received, error, runs, input, output>>
    /\ UNCHANGED <<socket, ids>>

\* run, line 291: the provider yields the next payload.
Run_next ==
    /\ pc = "loop"
    /\ ~Provider_next(provider).stop
    /\ payload' = Provider_next(provider).value
    /\ provider' = Provider_next(provider).provider
    /\ pc' = "send"
    /\ UNCHANGED <<mode, match_payloads, seed_id, responses, identifier,
                   sequence, payload_bytes_sent, time_left, raw_received,
                   wire, error, runs, input, output>>
    /\ UNCHANGED <<socket, ids>>

\* run, line 291: the provider is exhausted and run returns.
Run_return ==
    /\ pc = "loop"
    /\ Provider_next(provider).stop
    /\ pc' = "idle"
    /\ runs' = runs + 1
    /\ UNCHANGED <<mode, provider, match_payloads, seed_id, responses,
                   identifier, sequence, payload, payload_bytes_sent,
                   time_left, raw_received, wire, error, input, output>>
    /\ UNCHANGED <<socket, ids>>

\* send_ping, then the first lines of listen_for (time_left = timeout, and
\* nothing received yet).  socket.sendto is taken to accept the packet.
send_ping ==
    /\ pc = "send"
    /\ LET icmp_packet == EchoRequestPacket(identifier, sequence, payload)
       IN IF Raised(packet(icmp_packet))
          THEN /\ error' = packet(icmp_packet).raised
               /\ pc' = "raised"
               /\ UNCHANGED <<wire, payload_bytes_sent, time_left,
                              raw_received>>
          ELSE /\ wire' = Append(wire, packet(icmp_packet))
               /\ payload_bytes_sent' = icmp_packet.payload
               /\ time_left' = Timeout
               /\ raw_received' = NoData
               /\ pc' = "listen"
               /\ UNCHANGED error
    /\ UNCHANGED <<mode, provider, match_payloads, seed_id, responses,
                   identifier, sequence, payload, runs, input, output>>
    /\ UNCHANGED <<socket, ids>>

\* receive_packet: select reports the socket readable after some of the
\* remaining time, and recvfrom returns a frame.
receive_packet_data ==
    /\ pc = "listen"
    /\ time_left > 0
    /\ \E time_elapse_in_select \in 0..time_left, frame \in DeliverableFrames :
          /\ time_left' = TimeLeftAfter(time_left, time_elapse_in_select)
          /\ raw_received' = frame
    /\ pc' = "received"
    /\ UNCHANGED <<mode, provider, match_payloads, seed_id, responses,
                   identifier, sequence, payload, payload_bytes_sent, wire,
                   error, runs, input, output>>
    /\ UNCHANGED <<socket, ids>>

\* receive_packet: select times out, at the deadline or a tick late;
\* listen_for skips the empty result and tests time_left again.
receive_packet_timeout ==
    /\ pc = "listen"
    /\ time_left > 0
    /\ mode \in {"open", "lossy", "unreliable"}
    /\ \E time_elapse_in_select \in time_left..(time_left + 1) :
          time_left' = TimeLeftAfter(time_left, time_elapse_in_select)
    /\ raw_received' = NoData
    /\ UNCHANGED <<pc, mode, provider, match_payloads, seed_id, responses,
                   identifier, sequence, payload, payload_bytes_sent, wire,
                   error, runs, input, output>>
    /\ UNCHANGED <<socket, ids>>

\* listen_for, lines 270-280, on a received frame: unpack raises, or the
\* packet matches and run appends the Response and increases the sequence,
\* or the frame is dropped and the loop goes on.
listen_for_received ==
    /\ pc = "received"
    /\ LET response == unpack(ICMPPacket_default, raw_received)
       IN IF Raised(response)
          THEN /\ error' = response.raised
               /\ pc' = "raised"
               /\ UNCHANGED <<responses, sequence>>
          ELSE IF Matched(response, identifier, PayloadPattern)
          THEN /\ responses' =
                    append(responses,
                           Response(Some(Message("", response, SourceAddress)),
                                    ElapsedAtMatch(Timeout, time_left)))
               /\ sequence' = increase_seq(sequence)
               /\ pc' = "loop"
               /\ UNCHANGED error
          ELSE /\ pc' = "listen"
               /\ UNCHANGED <<responses, sequence, error>>
    /\ UNCHANGED <<mode, provider, match_payloads, seed_id, identifier,
                   payload, payload_bytes_sent, time_left, raw_received, wire,
                   runs, input, output>>
    /\ UNCHANGED <<socket, ids>>

\* listen_for, lines 267 and 282: no time is left; run appends the Response
\* without a message and increases the sequence.
listen_for_timed_out ==
    /\ pc = "listen"
    /\ ~(time_left > 0)
    /\ responses' = append(responses, TimedOutResponse(Timeout, time_left))
    /\ sequence' = increase_seq(sequence)
    /\ pc' = "loop"
    /\ UNCHANGED <<mode, provider, match_payloads, seed_id, identifier,
                   payload, payload_bytes_sent, time_left, raw_received, wire,
                   error, runs, input, output>>
    /\ UNCHANGED <<socket, ids>>

Next ==
    \/ Run_start
    \/ Run_next
    \/ Run_return
    \/ send_ping
    \/ receive_packet_data
    \/ receive_packet_timeout
    \/ listen_for_received
    \/ listen_for_timed_out

Init == InitSession

Spec == Init /\ [][Next]_vars

(***************************************************************************)
(* The session over an unreliable path to a destination that answers.      *)
(***************************************************************************)
InitUnreliable ==
    /\ pc = "idle"
    /\ mode = "unreliable"
    /\ provider \in {Repeat_init(<<97>>, MaxPayloads),
                     List_init([i \in 1..MaxPayloads |-> <<97 + i>>])}
    /\ match_payloads \in BOOLEAN
    /\ seed_id = MaxSequence
    /\ responses = ResponseList_init
    /\ identifier = 0
    /\ sequence = 0
    /\ payload = <<>>
    /\ payload_bytes_sent = <<>>
    /\ time_left = 0
    /\ raw_received = NoData
    /\ wire = <<>>
    /\ error = NoError
    /\ runs = 0
    /\ input = <<>>
    /\ output = <<>>
    /\ socket = "open"
    /\ ids = <<>>

SpecUnreliable == InitUnreliable /\ [][Next]_vars

(***************************************************************************)
(* The session when every receive that returns a frame has taken some of   *)
(* the remaining budget, and every step that can be taken is taken in the  *)
(* end: run is a sequential loop whose only suspension point, select, is   *)
(* bounded by its timeout argument.                                        *)
(***************************************************************************)
\* receive_packet returning a frame after a positive time in select.
receive_packet_data_later ==
    /\ receive_packet_data
    /\ time_left' < time_left

NextLive ==
    \/ Run_start
    \/ Run_next
    \/ Run_return
    \/ send_ping
    \/ receive_packet_data_later
    \/ receive_packet_timeout
    \/ listen_for_received
    \/ listen_for_timed_out

SpecLive == Init /\ [][NextLive]_vars /\ WF_vars(NextLive)

(***************************************************************************)
(* The response collection on its own: a ResponseList built by appending.  *)
(***************************************************************************)
\* A message received from the destination with the given type.
ReceivedMessage(typ) ==
    Message("", unpack(ICMPPacket_default,
                       ReplyFrame(typ, 0, MaxSequence, 1, <<97>>)),
            SourceAddress)

AppendableResponses ==
    {Response(m, e) :
        m \in {None, Some(ReceivedMessage(EchoReply_type_id)),
               Some(ReceivedMessage(DestinationUnreachable_type_id))},
        e \in 0..MaxElapsed}

InitList ==
    /\ pc = "list"
    /\ mode = "none"
    /\ provider = Repeat_init(<<>>, 0)
    /\ match_payloads = FALSE
    /\ seed_id = 0
    /\ responses = ResponseList_init
    /\ identifier = 0
    /\ sequence = 0
    /\ payload = <<>>
    /\ payload_bytes_sent = <<>>
    /\ time_left = 0
    /\ raw_received = NoData
    /\ wire = <<>>
    /\ error = NoError
    /\ runs = 0
    /\ input = <<>>
    /\ output = <<>>
    /\ socket = "none"
    /\ ids = <<>>

\* ResponseList.append called with a Response.
ResponseList_append ==
    /\ pc = "list"
    /\ ResponseCountOf(responses) < MaxLen
    /\ \E response \in AppendableResponses :
          responses' = append(responses, response)
    /\ UNCHANGED <<pc, mode, provider, match_payloads, seed_id, identifier,
                   sequence, payload, payload_bytes_sent, time_left,
                   raw_received, wire, error, runs, input, output>>
    /\ UNCHANGED <<socket, ids>>

\* ResponseList.success called with one of the policies.
ResponseList_success_call ==
    /\ pc = "list"
    /\ \E option \in SuccessRequest :
          output' = [option |-> option,
                     result |-> ResponseList_success(responses, option)]
    /\ pc' = "success"
    /\ UNCHANGED <<mode, provider, match_payloads, seed_id, responses,
                   identifier, sequence, payload, payload_bytes_sent,
                   time_left, raw_received, wire, error, runs, input>>
    /\ UNCHANGED <<socket, ids>>

NextList ==
    \/ ResponseList_append
    \/ ResponseList_success_call

SpecList == InitList /\ [][NextList]_vars

(***************************************************************************)
(* A provider on its own: constructed from drawn arguments, then iterated  *)
(* as for loops do; output holds, for each loop started, the payloads the  *)
(* provider yielded in it.                                                 *)
(***************************************************************************)
SweepPatterns == {<<>>, <<97>>, <<97, 98>>, <<97, 98, 99>>}

\* Payload lists of 0..MaxRepeatCount items: <<97>>, <<97, 98>>, ...
PayloadLists ==
    {[i \in 1..n |-> [j \in 1..i |-> 96 + j]] : n \in 0..MaxRepeatCount}

\* b'X' and the empty pattern.
RepeatPatterns == {<<88>>, <<>>}

\* No provider object.
NoProvider == ProviderObject("none", <<>>, <<>>, 0, 0, 0, 0)

\* The arguments of a provider's constructor.
ProviderArguments(kind, payloads, pattern, count, start_size, end_size) ==
    [kind |-> kind, payloads |-> payloads, pattern |-> pattern,
     count |-> count, start_size |-> start_size, end_size |-> end_size]

InitProvider ==
    /\ pc = "new"
    /\ mode = "none"
    /\ provider = NoProvider
    /\ match_payloads = FALSE
    /\ seed_id = 0
    /\ responses = ResponseList_init
    /\ identifier = 0
    /\ sequence = 0
    /\ payload = <<>>
    /\ payload_bytes_sent = <<>>
    /\ time_left = 0
    /\ raw_received = NoData
    /\ wire = <<>>
    /\ error = NoError
    /\ runs = 0
    /\ \/ \E pattern \in SweepPatterns, start_size \in 0..MaxSweepSize,
             end_size \in 0..MaxSweepSize :
             input = ProviderArguments("Sweep", <<>>, pattern, 0, start_size,
                                       end_size)
       \/ \E payload_list \in PayloadLists :
             input = ProviderArguments("List", payload_list, <<>>, 0, 0, 0)
       \/ \E pattern \in RepeatPatterns, count \in 0..MaxRepeatCount :
             input = ProviderArguments("Repeat", <<>>, pattern, count, 0, 0)
    /\ output = <<>>
    /\ socket = "none"
    /\ ids = <<>>

\* Sweep(pattern, start_size, end_size): the provider, or the exception.
Sweep_construct ==
    /\ pc = "new"
    /\ input.kind = "Sweep"
    /\ LET p == Sweep_init(input.pattern, input.start_size, input.end_size)
       IN IF Raised(p)
          THEN /\ error' = p.raised
               /\ pc' = "raised"
               /\ UNCHANGED provider
          ELSE /\ provider' = p
               /\ pc' = "constructed"
               /\ UNCHANGED error
    /\ UNCHANGED <<mode, match_payloads, seed_id, responses, identifier,
                   sequence, payload, payload_bytes_sent, time_left,
                   raw_received, wire, runs, input, output>>
    /\ UNCHANGED <<socket, ids>>

\* List(payload_list).
List_construct ==
    /\ pc = "new"
    /\ input.kind = "List"
    /\ provider' = List_init(input.payloads)
    /\ pc' = "constructed"
    /\ UNCHANGED <<mode, match_payloads, seed_id, responses, identifier,
                   sequence, payload, payload_bytes_sent, time_left,
                   raw_received, wire, error, runs, input, output>>
    /\ UNCHANGED <<socket, ids>>

\* Repeat(pattern, count).
Repeat_construct ==
    /\ pc = "new"
    /\ input.kind = "Repeat"
    /\ provider' = Repeat_init(input.pattern, input.count)
    /\ pc' = "constructed"
    /\ UNCHANGED <<mode, match_payloads, seed_id, responses, identifier,
                   sequence, payload, payload_bytes_sent, time_left,
                   raw_received, wire, error, runs, input, output>>
    /\ UNCHANGED <<socket, ids>>

\* iter(provider): a loop starts, on a new provider, on one whose loop was
\* left part-way, or on one that has signalled exhaustion.
Provider_iterate ==
    /\ pc \in {"constructed", "iterating", "stopped", "exhausted"}
    /\ Len(output) < MaxIterations
    /\ provider' = Provider_iter(provider)
    /\ output' = Append(output, <<>>)
    /\ pc' = "iterating"
    /\ UNCHANGED <<mode, match_payloads, seed_id, responses, identifier,
                   sequence, payload, payload_bytes_sent, time_left,
                   raw_received, wire, error, runs, input>>
    /\ UNCHANGED <<socket, ids>>

\* next(provider) returns a payload.
Provider_yield ==
    /\ pc = "iterating"
    /\ ~Provider_next(provider).stop
    /\ output' = [output EXCEPT ![Len(output)] =
                     Append(@, Provider_next(provider).value)]
    /\ provider' = Provider_next(provider).provider
    /\ UNCHANGED <<pc, mode, match_payloads, seed_id, responses, identifier,
                   sequence, payload, payload_bytes_sent, time_left,
                   raw_received, wire, error, runs, input>>
    /\ UNCHANGED <<socket, ids>>

\* next(provider) raises StopIteration and the loop ends.
Provider_stop ==
    /\ pc = "iterating"
    /\ Provider_next(provider).stop
    /\ provider' = Provider_next(provider).provider
    /\ pc' = "stopped"
    /\ UNCHANGED <<mode, match_payloads, seed_id, responses,
                   identifier, sequence, payload, payload_bytes_sent,
                   time_left, raw_received, wire, error, runs, input, output>>
    /\ UNCHANGED <<socket, ids>>

\* next(provider) asked again after the loop has ended: StopIteration again,
\* or a payload.
Provider_next_after_end ==
    /\ pc \in {"stopped", "exhausted"}
    /\ provider' = Provider_next(provider).provider
    /\ IF Provider_next(provider).stop
       THEN /\ pc' = "exhausted"
            /\ UNCHANGED output
       ELSE /\ pc' = "yielded after end"
            /\ output' = [output EXCEPT ![Len(output)] =
                             Append(@, Provider_next(provider).value)]
    /\ UNCHANGED <<mode, match_payloads, seed_id, responses, identifier,
                   sequence, payload, payload_bytes_sent, time_left,
                   raw_received, wire, error, runs, input>>
    /\ UNCHANGED <<socket, ids>>

NextProvider ==
    \/ Sweep_construct
    \/ List_construct
    \/ Repeat_construct
    \/ Provider_iterate
    \/ Provider_yield
    \/ Provider_stop
    \/ Provider_next_after_end

SpecProvider == InitProvider /\ [][NextProvider]_vars

(***************************************************************************)
(* The codec on its own: a packet is built from drawn arguments and         *)
(* encoded; the frame carrying its bytes, as sent or with one bit flipped, *)
(* is decoded and its checksum verified.                                   *)
(***************************************************************************)
CodecTypes == {EchoReply_type_id, DestinationUnreachable_type_id,
               EchoRequest_type_id}
CodecCodes == {0, 1}
CodecIdentifiers == {1, 4242, MaxSequence}
CodecSequenceNumbers == {1, 2, 256, 32767, 32768, MaxSequence}
CodecPayloads == {<<>>, <<97>>, <<97, 98>>}

InitCodec ==
    /\ pc = "packet"
    /\ mode = "none"
    /\ provider = NoProvider
    /\ match_payloads = FALSE
    /\ seed_id = 0
    /\ responses = ResponseList_init
    /\ identifier = 0
    /\ sequence = 0
    /\ payload = <<>>
    /\ payload_bytes_sent = <<>>
    /\ time_left = 0
    /\ raw_received = NoData
    /\ wire = <<>>
    /\ error = NoError
    /\ runs = 0
    /\ \E t \in CodecTypes, c \in CodecCodes, i \in CodecIdentifiers,
          n \in CodecSequenceNumbers, pl \in CodecPayloads :
          input = ICMPPacket_with_code(t, c, pl, i, n)
    /\ output = <<>>
    /\ socket = "none"
    /\ ids = <<>>

\* ICMPPacket.packet of the packet built: its bytes, or the exception.
Codec_encode ==
    /\ pc = "packet"
    /\ IF Raised(packet(input))
       THEN /\ error' = packet(input).raised
            /\ pc' = "raised"
            /\ UNCHANGED wire
       ELSE /\ wire' = <<packet(input)>>
            /\ pc' = "encoded"
            /\ UNCHANGED error
    /\ UNCHANGED <<mode, provider, match_payloads, seed_id, responses,
                   identifier, sequence, payload, payload_bytes_sent,
                   time_left, raw_received, input, runs, output>>
    /\ UNCHANGED <<socket, ids>>

\* The result of decoding a frame: the packet and its is_valid.
Decoded(raw) ==
    [packet |-> generate_from_raw(raw),
     is_valid |-> is_valid(generate_from_raw(raw))]

\* generate_from_raw and is_valid on the frame carrying the bytes as sent.
Codec_decode ==
    /\ pc = "encoded"
    /\ raw_received' = Frame(wire[1])
    /\ output' = Decoded(Frame(wire[1]))
    /\ pc' = "decoded"
    /\ UNCHANGED <<mode, provider, match_payloads, seed_id, responses,
                   identifier, sequence, payload, payload_bytes_sent,
                   time_left, wire, error, runs, input>>
    /\ UNCHANGED <<socket, ids>>

\* generate_from_raw and is_valid on the frame carrying the bytes with one
\* bit flipped on the way.
Codec_decode_flipped ==
    /\ pc = "encoded"
    /\ \E k \in 0..(BitsOf(wire[1]) - 1) :
          /\ raw_received' = Frame(FlipBit(wire[1], k))
          /\ output' = Decoded(Frame(FlipBit(wire[1], k)))
    /\ pc' = "decoded flipped"
    /\ UNCHANGED <<mode, provider, match_payloads, seed_id, responses,
                   identifier, sequence, payload, payload_bytes_sent,
                   time_left, wire, error, runs, input>>
    /\ UNCHANGED <<socket, ids>>

NextCodec ==
    \/ Codec_encode
    \/ Codec_decode
    \/ Codec_decode_flipped

SpecCodec == InitCodec /\ [][NextCodec]_vars

(***************************************************************************)
(* PacketBase.checksum applied on its own to a drawn byte string.          *)
(***************************************************************************)
ChecksumBytes == {0, 1, 128, 255}

InitChecksum ==
    /\ pc = "call"
    /\ mode = "none"
    /\ provider = Repeat_init(<<>>, 0)
    /\ match_payloads = FALSE
    /\ seed_id = 0
    /\ responses = ResponseList_init
    /\ identifier = 0
    /\ sequence = 0
    /\ payload = <<>>
    /\ payload_bytes_sent = <<>>
    /\ time_left = 0
    /\ raw_received = NoData
    /\ wire = <<>>
    /\ error = NoError
    /\ runs = 0
    /\ \E n \in 0..MaxMessageLen : input \in [1..n -> ChecksumBytes]
    /\ output = 0
    /\ socket = "none"
    /\ ids = <<>>

\* PacketBase.checksum(message).
Apply_checksum ==
    /\ pc = "call"
    /\ output' = checksum(input)
    /\ pc' = "checksum"
    /\ UNCHANGED <<mode, provider, match_payloads, seed_id, responses,
                   identifier, sequence, payload, payload_bytes_sent,
                   time_left, raw_received, wire, error, runs, input>>
    /\ UNCHANGED <<socket, ids>>

NextChecksum == Apply_checksum

SpecChecksum == InitChecksum /\ [][NextChecksum]_vars

(***************************************************************************)
(* Functions applied on their own: the argument is drawn in the initial    *)
(* state and one step applies the function.                                *)
(***************************************************************************)
\* Arguments: a sequence number for building a request and for
\* increase_seq; the type and code bytes of a received frame, or no message,
\* for the classification of a Response.
FunctionInput(fn, typ, code, sequence_number) ==
    [fn |-> fn, typ |-> typ, code |-> code, sequence_number |-> sequence_number]

InitFn ==
    /\ pc = "call"
    /\ mode = "none"
    /\ provider = Repeat_init(<<>>, 0)
    /\ match_payloads = FALSE
    /\ seed_id = 0
    /\ responses = ResponseList_init
    /\ identifier = 0
    /\ sequence = 0
    /\ payload = <<>>
    /\ payload_bytes_sent = <<>>
    /\ time_left = 0
    /\ raw_received = NoData
    /\ wire = <<>>
    /\ error = NoError
    /\ runs = 0
    /\ \/ \E n \in 1..MaxSequence : input = FunctionInput("attempt", 0, 0, n)
       \/ \E t \in 0..255, c \in 0..255 :
             input = FunctionInput("received", t, c, 0)
       \/ input = FunctionInput("no message", 0, 0, 0)
    /\ output = <<>>
    /\ socket = "none"
    /\ ids = <<>>

\* send_ping's packet for an attempt with the given sequence number:
\* ICMPPacket(Types.EchoRequest, ...).packet, or the exception it raises.
Apply_packet ==
    /\ pc = "call"
    /\ input.fn = "attempt"
    /\ output' = packet(EchoRequestPacket(MaxSequence, input.sequence_number,
                                          <<97>>))
    /\ pc' = "packet"
    /\ UNCHANGED <<mode, provider, match_payloads, seed_id, responses,
                   identifier, sequence, payload, payload_bytes_sent,
                   time_left, raw_received, wire, error, runs, input>>
    /\ UNCHANGED <<socket, ids>>

\* increase_seq on the sequence number of an attempt.
Apply_increase_seq ==
    /\ pc = "call"
    /\ input.fn = "attempt"
    /\ output' = increase_seq(input.sequence_number)
    /\ pc' = "increase_seq"
    /\ UNCHANGED <<mode, provider, match_payloads, seed_id, responses,
                   identifier, sequence, payload, payload_bytes_sent,
                   time_left, raw_received, wire, error, runs, input>>
    /\ UNCHANGED <<socket, ids>>

\* The Response listen_for makes of a frame with the given type and code
\* bytes (unpacked by the codec), or of no reply.
ResponseOf(in) ==
    IF in.fn = "no message" THEN Response(None, Timeout)
    ELSE Response(Some(Message("", unpack(ICMPPacket_default,
                                          ReplyFrame(in.typ, in.code,
                                                     MaxSequence, 1, <<97>>)),
                               SourceAddress)),
                  0)

\* Response.success and Response.error_message of such a Response.
Apply_error_message ==
    /\ pc = "call"
    /\ input.fn \in {"received", "no message"}
    /\ output' = [response |-> ResponseOf(input),
                  success |-> Response_success(ResponseOf(input)),
                  error_message |-> error_message(ResponseOf(input))]
    /\ pc' = "error_message"
    /\ UNCHANGED <<mode, provider, match_payloads, seed_id, responses,
                   identifier, sequence, payload, payload_bytes_sent,
                   time_left, raw_received, wire, error, runs, input>>
    /\ UNCHANGED <<socket, ids>>

NextFn ==
    \/ Apply_packet
    \/ Apply_increase_seq
    \/ Apply_error_message

SpecFn == InitFn /\ [][NextFn]_vars

(***************************************************************************)
(* commands.py: PingCommand.run, from the choice of the provider and the   *)
(* reservation of an identifier, through the construction of the           *)
(* Communicator and its run, to the release of the identifier.             *)
(***************************************************************************)
\* random_text(size): the texts of that length over two of the printable
\* characters.
RECURSIVE random_text(_)
random_text(size) ==
    IF size <= 0 THEN {<<>>}
    ELSE {<<c>> \o t : c \in {97, 98}, t \in random_text(size - 1)}

\* The fields of a PingCommand that run reads; None is written 0 for the
\* sweep bounds and <<>> for the payload (run tests them for truth only).
PingCommandFields(count, size, payload_, sweep_start, sweep_end, dont_fragment) ==
    [count |-> count, size |-> size, payload |-> payload_,
     sweep_start |-> sweep_start, sweep_end |-> sweep_end,
     dont_fragment |-> dont_fragment]

\* run, line 88: the test that selects the Sweep provider.
SweepSelected(self) ==
    /\ self.sweep_start # 0
    /\ self.sweep_end # 0
    /\ self.sweep_end >= self.sweep_start

\* run, lines 90 and 94: the size of the random text made when no payload
\* was given.
TextSize(self) == IF SweepSelected(self) THEN self.sweep_start ELSE self.size

\* run, lines 86-95: the payload provider; text is the random text.
PingCommand_provider(self, text) ==
    LET payload_ == IF self.payload = <<>> THEN text ELSE self.payload
    IN IF SweepSelected(self)
       THEN Sweep_init(payload_, self.sweep_start, self.sweep_end)
       ELSE IF self.size # 0 /\ self.size > 0
       THEN Repeat_init(payload_, self.count)
       ELSE Repeat_init(<<>>, 0)

\* list.remove(x): the list without the first occurrence of x.
RECURSIVE ListRemove(_, _)
ListRemove(list, x) ==
    IF list = <<>> THEN <<>>
    ELSE IF Head(list) = x THEN Tail(list)
    ELSE <<Head(list)>> \o ListRemove(Tail(list), x)

ListHas(list, x) == \E i \in 1..Len(list) : list[i] = x

\* Values randint(0x1, 0xFFFF) may give.
SeedChoices == {1, MaxSequence}

InitCommand ==
    /\ pc = "command"
    /\ mode = "open"
    /\ provider = NoProvider
    /\ match_payloads \in BOOLEAN
    /\ seed_id = 0
    /\ responses = ResponseList_init
    /\ identifier = 0
    /\ sequence = 0
    /\ payload = <<>>
    /\ payload_bytes_sent = <<>>
    /\ time_left = 0
    /\ raw_received = NoData
    /\ wire = <<>>
    /\ error = NoError
    /\ runs = 0
    /\ \E count \in 0..MaxCommandCount, size \in 0..MaxCommandCount,
          payload_ \in {<<>>, <<98>>},
          sweep \in {<<0, 0>>, <<1, 1>>, <<2, 1>>},
          dont_fragment \in BOOLEAN :
          input = PingCommandFields(count, size, payload_, sweep[1], sweep[2],
                                    dont_fragment)
    /\ output = <<>>
    /\ socket = "none"
    /\ ids \in {<<>>, <<1>>}

\* run, lines 86-105: choose the provider and reserve an identifier that is
\* not in the registry (the loop draws until it finds one).
PingCommand_reserve ==
    /\ pc = "command"
    /\ \E text \in random_text(TextSize(input)) :
          provider' = PingCommand_provider(input, text)
    /\ \E seed \in SeedChoices :
          /\ ~ListHas(ids, seed)
          /\ ids' = Append(ids, seed)
          /\ seed_id' = seed
    /\ pc' = "reserved"
    /\ UNCHANGED <<mode, match_payloads, responses, identifier, sequence,
                   payload, payload_bytes_sent, time_left, raw_received, wire,
                   error, runs, input, output, socket>>

\* run, lines 107-113: Communicator.__init__ and in it SocketInterface.
\* __init__.  gethostbyname fails (RuntimeError, no socket yet), or
\* socket.socket fails (no socket), or the socket is created and, with
\* dont_fragment, setsockopt(*options) raises TypeError because options is
\* the property object read from the class; otherwise the Communicator is
\* constructed.
Communicator_init ==
    /\ pc = "reserved"
    /\ \/ /\ error' \in {"RuntimeError", "OSError"}
          /\ pc' = "raised"
          /\ UNCHANGED <<socket, responses>>
       \/ /\ input.dont_fragment
          /\ socket' = "open"
          /\ error' = "TypeError"
          /\ pc' = "raised"
          /\ UNCHANGED responses
       \/ /\ ~input.dont_fragment
          /\ socket' = "open"
          /\ responses' = ResponseList_init
          /\ pc' = "idle"
          /\ UNCHANGED error
    /\ UNCHANGED <<mode, provider, match_payloads, seed_id, identifier,
                   sequence, payload, payload_bytes_sent, time_left,
                   raw_received, wire, runs, input, output, ids>>

\* run, line 115: communicator.run(match_payloads=self.match), called once.
PingCommand_call_run ==
    /\ runs = 0
    /\ Run_start

\* run, lines 117-119: release the identifier and return the responses.
PingCommand_return ==
    /\ pc = "idle"
    /\ runs = 1
    /\ ids' = ListRemove(ids, seed_id)
    /\ pc' = "returned"
    /\ UNCHANGED <<mode, provider, match_payloads, seed_id, responses,
                   identifier, sequence, payload, payload_bytes_sent,
                   time_left, raw_received, wire, error, runs, input, output,
                   socket>>

\* SocketInterface.__del__: once run has returned or raised, nothing refers
\* to the Communicator and the interpreter finalizes its transport at a
\* moment of its choosing; close_socket closes the socket if it is open.
SocketInterface_del ==
    /\ pc \in {"returned", "raised"}
    /\ socket = "open"
    /\ socket' = "closed"
    /\ UNCHANGED <<pc, mode, provider, match_payloads, seed_id, responses,
                   identifier, sequence, payload, payload_bytes_sent,
                   time_left, raw_received, wire, error, runs, input, output,
                   ids>>

NextCommand ==
    \/ PingCommand_reserve
    \/ Communicator_init
    \/ PingCommand_call_run
    \/ Run_next
    \/ Run_return
    \/ send_ping
    \/ receive_packet_data
    \/ receive_packet_timeout
    \/ listen_for_received
    \/ listen_for_timed_out
    \/ PingCommand_return
    \/ SocketInterface_del

SpecCommand == InitCommand /\ [][NextCommand]_vars

(***************************************************************************)
(* Two calls of PingCommand.run in two threads of one process: on one      *)
(* PingCommand object, whose registry they share, or on two objects, each  *)
(* with the SeedIds() its constructor made.  pc and seed_id hold one entry *)
(* per thread, ids one list per registry.  A thread may be suspended       *)
(* between any two of the steps of lines 101-105.                          *)
(***************************************************************************)
Threads == {1, 2}

\* The registry thread t uses: self.seed_identifiers of its PingCommand.
RegistryOf(t) == IF mode = "one command" THEN 1 ELSE t

InitConcurrent ==
    /\ pc = <<"pick", "pick">>
    /\ mode \in {"one command", "two commands"}
    /\ provider = NoProvider
    /\ match_payloads = FALSE
    /\ seed_id = <<0, 0>>
    /\ responses = ResponseList_init
    /\ identifier = 0
    /\ sequence = 0
    /\ payload = <<>>
    /\ payload_bytes_sent = <<>>
    /\ time_left = 0
    /\ raw_received = NoData
    /\ wire = <<>>
    /\ error = NoError
    /\ runs = 0
    /\ input = <<>>
    /\ output = <<>>
    /\ socket = "none"
    /\ ids = IF mode = "one command" THEN << <<>> >> ELSE << <<>>, <<>> >>

\* run, line 102: seed_id = randint(0x1, 0xFFFF).
Reserve_pick ==
    /\ \E t \in Threads :
          /\ pc[t] = "pick"
          /\ \E seed \in SeedChoices : seed_id' = [seed_id EXCEPT ![t] = seed]
          /\ pc' = [pc EXCEPT ![t] = "test"]
    /\ UNCHANGED <<mode, provider, match_payloads, responses, identifier,
                   sequence, payload, payload_bytes_sent, time_left,
                   raw_received, wire, error, runs, input, output, socket,
                   ids>>

\* run, line 103: if seed_id not in self.seed_identifiers.ids.
Reserve_test ==
    /\ \E t \in Threads :
          /\ pc[t] = "test"
          /\ pc' = [pc EXCEPT ![t] =
                       IF ListHas(ids[RegistryOf(t)], seed_id[t])
                       THEN "pick" ELSE "append"]
    /\ UNCHANGED <<mode, provider, match_payloads, seed_id, responses,
                   identifier, sequence, payload, payload_bytes_sent,
                   time_left, raw_received, wire, error, runs, input, output,
                   socket, ids>>

\* run, lines 104-105: self.seed_identifiers.ids.append(seed_id); break.
\* From here the thread's session uses the identifier.
Reserve_append ==
    /\ \E t \in Threads :
          /\ pc[t] = "append"
          /\ ids' = [ids EXCEPT ![RegistryOf(t)] = Append(@, seed_id[t])]
          /\ pc' = [pc EXCEPT ![t] = "active"]
    /\ UNCHANGED <<mode, provider, match_payloads, seed_id, responses,
                   identifier, sequence, payload, payload_bytes_sent,
                   time_left, raw_received, wire, error, runs, input, output,
                   socket>>

\* run, lines 107-119: the session has run; ids.remove(seed_id) and return.
Release ==
    /\ \E t \in Threads :
          /\ pc[t] = "active"
          /\ ids' = [ids EXCEPT ![RegistryOf(t)] = ListRemove(@, seed_id[t])]
          /\ pc' = [pc EXCEPT ![t] = "returned"]
    /\ UNCHANGED <<mode, provider, match_payloads, seed_id, responses,
                   identifier, sequence, payload, payload_bytes_sent,
                   time_left, raw_received, wire, error, runs, input, output,
                   socket>>

NextConcurrent ==
    \/ Reserve_pick
    \/ Reserve_test
    \/ Reserve_append
    \/ Release

SpecConcurrent == InitConcurrent /\ [][NextConcurrent]_vars

(***************************************************************************)
(* Claims about the session.                                               *)
(***************************************************************************)
ResponseCount == ResponseCountOf(responses)

\* An attempt is under way: its request is sent, its Response not appended.
Listening == pc \in {"listen", "received"}

\* run has returned at least once and is not running.
Returned == pc = "idle" /\ runs >= 1

\* C1, at every moment of a run: the requests sent so far are Echo Requests
\* carrying the provider's payloads, one per payload and in the provider's
\* order, there is one Response per finished attempt (an exception leaves
\* run during an attempt or between two), and once run has returned there
\* are as many requests and Responses as the provider yields.
C1_Counts ==
    LET k == Len(Yields(provider))
    IN /\ Len(wire) <= k
       /\ \A i \in 1..Len(wire) :
             /\ wire[i].typ = EchoRequest_type_id
             /\ wire[i].payload = Yields(provider)[i]
       /\ pc # "raised" =>
             ResponseCount = IF Listening THEN Len(wire) - 1 ELSE Len(wire)
       /\ pc = "raised" => ResponseCount \in {Len(wire) - 1, Len(wire)}
       /\ Returned => Len(wire) = k /\ ResponseCount = k

\* C1, step by step: the collection changes only when run starts, which
\* empties it, or when the attempt under way ends, which appends that
\* attempt's Response after the earlier ones; a request is sent only when no
\* attempt is under way.
C1_Steps ==
    /\ (pc = "idle" /\ pc' = "loop") => responses'.responses = <<>>
    /\ (responses'.responses # responses.responses /\ pc # "idle") =>
          /\ Listening
          /\ pc' = "loop"
          /\ Len(responses'.responses) = Len(wire)
          /\ SubSeq(responses'.responses, 1, ResponseCount) = responses.responses
    /\ wire' # wire => pc \in {"idle", "send"}

CurrentRequest == wire[Len(wire)]
LastResponse == responses.responses[ResponseCount]
LastResponse_next == responses'.responses[Len(responses'.responses)]

\* A frame too short to hold the 20-byte outer header and the 8-byte ICMP
\* header.
TooShort(frame) == frame.size < HeaderOffset + 8

\* C2: a received frame too short for the outer offset and the ICMP header
\* is dropped and listening goes on with the same remaining budget; the
\* attempt is not aborted.
C2_ShortFrameIsDiscarded ==
    [][(pc = "received" /\ TooShort(raw_received)) =>
          (pc' = "listen" /\ time_left' = time_left /\ error' = NoError)]_vars

\* The condition under which a received frame is the awaited reply: it holds
\* a full header, carries the request's identifier, is not an Echo Request
\* and, with payload matching on, carries the payload sent.
IsAwaitedReply(frame) ==
    /\ ~TooShort(frame)
    /\ frame.ident = CurrentRequest.ident
    /\ frame.typ # 8
    /\ match_payloads => frame.payload = CurrentRequest.payload

\* C3, steps: handling a received frame appends a matched Response, made of
\* that frame's packet, exactly when the frame is the awaited reply; any
\* other frame leaves the collection as it was.
C3_Steps ==
    pc = "received" =>
        /\ (pc' = "loop" /\ Len(responses'.responses) = ResponseCount + 1)
              <=> IsAwaitedReply(raw_received)
        /\ IsAwaitedReply(raw_received) =>
              /\ LastResponse_next.message # None
              /\ LastResponse_next.message[1].packet.identifier = raw_received.ident
              /\ LastResponse_next.message[1].packet.message_type = raw_received.typ
              /\ LastResponse_next.message[1].packet.payload = raw_received.payload
        /\ ~IsAwaitedReply(raw_received) => responses' = responses

\* C3, states: every recorded Response with a message carries the session's
\* identifier, a type other than Echo Request and, with payload matching on,
\* the payload of its attempt's request.
C3_Recorded ==
    \A i \in 1..ResponseCount :
        LET r == responses.responses[i]
        IN r.message # None =>
              /\ r.message[1].packet.identifier = wire[i].ident
              /\ r.message[1].packet.message_type # 8
              /\ match_payloads => r.message[1].packet.payload = wire[i].payload

\* C3: listen_for gives a matched Response for a received frame if and only
\* if the frame has the request's identifier, is not an Echo Request and,
\* with payload matching on, has the payload sent; every other frame is
\* dropped and is in no recorded Response.
C3_MatchedIffAwaitedReply == []C3_Recorded /\ [][C3_Steps]_vars

\* C3's case: with payload matching off, the first attempt timed out and
\* the second recorded, a tick after its request, a reply with the session's
\* identifier and a foreign payload.
C3_Witness ==
    /\ ~match_payloads
    /\ ResponseCount = 2
    /\ responses.responses[1].message = None
    /\ LastResponse.message # None
    /\ LastResponse.message[1].packet.payload = ForeignPayload
    /\ LastResponse.time_elapsed = 1

\* C4, steps: the budget of an attempt starts at the declared timeout, a
\* receive takes its elapsed time off it and nothing else changes it
\* (dropping a frame leaves it as the receive left it); a matched Response
\* records the timeout minus the budget left, and an attempt out of budget
\* records a Response without a message whose elapsed time is the timeout.
C4_Steps ==
    /\ (pc = "send" /\ pc' = "listen") => time_left' = Timeout
    /\ (pc = "listen" /\ pc' \in {"listen", "received"}) =>
          /\ time_left' <= time_left
    /\ pc = "received" => time_left' = time_left
    /\ (pc = "received" /\ pc' = "loop") =>
          /\ LastResponse_next.message # None
          /\ LastResponse_next.time_elapsed = Timeout - time_left
    /\ (pc = "listen" /\ pc' = "loop") =>
          /\ time_left <= 0
          /\ LastResponse_next = [message |-> None, time_elapsed |-> Timeout]
    /\ (pc = "listen" /\ time_left <= 0) => pc' = "loop"

\* C4: within an attempt the remaining budget starts at the timeout and is
\* only reduced, by the time spent in each receive; a match records timeout
\* minus remaining budget, exhaustion records no message and the timeout.
C4_BudgetOnlyShrinks == [][C4_Steps]_vars

\* C4's case: the first attempt matched a tick after its request; in the
\* second a foreign frame has been received after a tick and dropped, and
\* the loop listens on with the tick that is left.
C4_Witness ==
    /\ pc = "listen"
    /\ Timeout - time_left = 1
    /\ time_left > 0
    /\ raw_received # NoData
    /\ raw_received.ident # seed_id
    /\ ResponseCount = 1
    /\ LastResponse.message # None
    /\ LastResponse.time_elapsed = 1

\* C5: every Echo Request of a run carries the session's seed identifier,
\* the first carries sequence number 1 and each next one the previous
\* number plus one; none carries 0.
C5_IdentifierAndSequence ==
    \A i \in 1..Len(wire) :
        /\ wire[i].ident = seed_id
        /\ wire[i].seq # 0
        /\ i = 1 => wire[i].seq = 1
        /\ i > 1 => wire[i].seq = wire[i - 1].seq + 1

\* C5's case: the fifth request of a run has been sent.
C5_Witness == Len(wire) = DefaultCount /\ wire[DefaultCount].seq = DefaultCount

\* C9: when the destination answers every request within the timeout with
\* the request turned into an Echo Reply, a run over a provider yielding 5
\* payloads ends with 5 Responses, all successful, and a loss ratio of 0.
C9_EchoSessionAllSucceed ==
    (mode = "echo" /\ Len(Yields(provider)) = DefaultCount) =>
        /\ pc # "raised"
        /\ Returned =>
              /\ ResponseCount = DefaultCount
              /\ \A i \in 1..ResponseCount :
                    Response_success(responses.responses[i])
              /\ responses.packets_lost = RatOfInt(0)

\* C9's case: such a run has returned, with replies that took different
\* times.
C9_Witness ==
    /\ mode = "echo"
    /\ Returned
    /\ ResponseCount = DefaultCount
    /\ responses.responses[1].time_elapsed = 0
    /\ responses.responses[DefaultCount].time_elapsed = Timeout

(***************************************************************************)
(* Claims about functions applied on their own.                            *)
(***************************************************************************)
\* C6: every attempt with a sequence number in 1..0xFFFF is built and sent
\* carrying that number, and the attempt after the one carrying 0xFFFF
\* carries 1, never 0.
C6_AllSequenceNumbersSentAndWrapToOne ==
    /\ pc = "packet" =>
          /\ ~Raised(output)
          /\ output.seq = input.sequence_number
    /\ pc = "increase_seq" =>
          /\ output # 0
          /\ output = IF input.sequence_number = 65535 THEN 1
                      ELSE input.sequence_number + 1

\* C7: a Response is successful iff it carries a message whose packet has
\* type 0 and code 0; without a message it is unsuccessful and labelled
\* "No response"; with a packet that is neither type 0 and code 0 nor type 3
\* it is unsuccessful and labelled "Network Error".
C7_SuccessAndLabels ==
    pc = "error_message" =>
        LET r == output.response
            has == r.message # None
            type == r.message[1].packet.message_type
            code == r.message[1].packet.message_code
        IN /\ output.success <=> (has /\ type = 0 /\ code = 0)
           /\ ~has => (~output.success /\ output.error_message = <<"No response">>)
           /\ (has /\ ~(type = 0 /\ code = 0) /\ type # 3) =>
                 (~output.success /\ output.error_message = <<"Network Error">>)

\* C7's case: a reply of type 0 with a non-zero code has been classified.
C7_Witness ==
    /\ pc = "error_message"
    /\ input.fn = "received"
    /\ input.typ = 0
    /\ input.code = 1
    /\ output.error_message = <<"Network Error">>

\* C8: for a reply of type 3 the label is the entry at position code of the
\* sixteen reasons for every code byte 0..15 and "Unreachable" for every
\* code byte 16..255.
C8_UnreachableLabels ==
    (pc = "error_message" /\ input.fn = "received" /\ input.typ = 3) =>
        output.error_message =
            IF input.code \in 0..15 THEN <<unreachable_messages[input.code + 1]>>
            ELSE <<"Unreachable">>

(***************************************************************************)
(* Claims about the response collection.                                   *)
(***************************************************************************)
ElapsedOf(self) == [i \in 1..Len(self.responses) |-> self.responses[i].time_elapsed]

RECURSIVE SumSeq(_)
SumSeq(q) == IF q = <<>> THEN 0 ELSE q[1] + SumSeq(Tail(q))

MinOf(q) == CHOOSE x \in {q[i] : i \in 1..Len(q)} : \A i \in 1..Len(q) : x <= q[i]
MaxOf(q) == CHOOSE x \in {q[i] : i \in 1..Len(q)} : \A i \in 1..Len(q) : x >= q[i]

\* C10: after appending Responses with elapsed times e1..en, n >= 1, to an
\* empty collection, the running minimum is min(e1..en), the maximum
\* max(e1..en) and the average (e1+...+en)/n; the first append sets all
\* three to e1; 0.010, 0.020, 0.030 s give 10.0, 30.0 and 20.0 ms.
C10_RunningMinMaxAverage ==
    LET es == ElapsedOf(responses)
        n == Len(es)
    IN (pc = "list" /\ n >= 1) =>
          /\ responses.rtt_min = MinOf(es)
          /\ responses.rtt_max = MaxOf(es)
          /\ responses.rtt_avg.num * n = SumSeq(es) * responses.rtt_avg.den
          /\ n = 1 => /\ responses.rtt_min = es[1]
                      /\ responses.rtt_max = es[1]
                      /\ responses.rtt_avg = RatOfInt(es[1])
          /\ es = <<1, 2, 3>> =>
                /\ rtt_min_ms(responses) = 1000
                /\ rtt_max_ms(responses) = 3000
                /\ rtt_avg_ms(responses) = 2000

\* C10's case: Responses of 0.010, 0.020 and 0.030 s have been appended.
C10_Witness == pc = "list" /\ ElapsedOf(responses) = <<1, 2, 3>>

\* C11: every append moves the loss ratio by the incremental formula, n being
\* the new count: lost + (1 - lost)/n when the appended Response is a
\* failure, lost + (-lost)/n when it is a success.
C11_LossRatioUpdate ==
    [][(pc = "list" /\ Len(responses'.responses) = ResponseCount + 1) =>
          LET n == Len(responses'.responses)
              lost == responses.packets_lost
              is_failure == ~Response_success(LastResponse_next)
          IN responses'.packets_lost =
                RatAdd(lost,
                       RatDivInt(IF is_failure THEN RatSub(RatOfInt(1), lost)
                                 ELSE RatSub(RatOfInt(0), lost), n))]_vars

(***************************************************************************)
(* Claims about the statistics of a session.                               *)
(***************************************************************************)
\* The attempts of the collection that ended without a message, and those
\* that succeeded.
TimedOutAttempts == {i \in 1..ResponseCount : responses.responses[i].message = None}
SucceededAttempts ==
    {i \in 1..ResponseCount : Response_success(responses.responses[i])}

\* C12: a session of 4 attempts of which exactly 1 timed out and 3 succeeded
\* reports a final loss ratio of one fourth, wherever the timed-out attempt
\* falls among the four.
C12_OneTimeoutInFourIsOneFourth ==
    (Returned /\ ResponseCount = 4
        /\ Cardinality(TimedOutAttempts) = 1
        /\ Cardinality(SucceededAttempts) = 3) =>
        responses.packets_lost = Rat(1, 4)

\* C13: after any run, first or repeated, the collection's count, loss ratio
\* and minimum, maximum and average round-trip time are those a newly
\* created collection has after the same attempt outcomes in the same order.
C13_RunStatisticsAreOfThatRunOnly ==
    Returned => responses = ResponseList_of(responses.responses)

\* C14: for a non-empty collection holding s successful Responses out of n,
\* the success predicate is true under 'one' iff s >= 1, under 'most' iff
\* s/n > 1/2 (exactly half is not a majority) and under 'all' iff s = n.
C14_SuccessPolicies ==
    (pc = "success" /\ ResponseCount >= 1) =>
        LET n == ResponseCount
            s == Cardinality(SucceededAttempts)
        IN /\ output.option = "one" => output.result = [value |-> s >= 1]
           /\ output.option = "most" => output.result = [value |-> 2 * s > n]
           /\ output.option = "all" => output.result = [value |-> s = n]

\* C14's case: 'most' was asked of a collection of two Responses of which
\* exactly one succeeded, and answered false.
C14_Witness ==
    /\ pc = "success"
    /\ ResponseCount = 2
    /\ Cardinality(SucceededAttempts) = 1
    /\ output = [option |-> "most", result |-> [value |-> FALSE]]

(***************************************************************************)
(* Claims about the Sweep provider.                                        *)
(***************************************************************************)
\* The first n bytes of the pattern repeated cyclically.
CyclicPrefix(pattern, n) ==
    [j \in 1..n |-> pattern[((j - 1) % Len(pattern)) + 1]]

\* The payloads of lengths start, start + 1, ..., end.
SweepPayloads(pattern, start_size, end_size) ==
    [i \in 1..(end_size - start_size + 1) |->
        CyclicPrefix(pattern, start_size + i - 1)]

LengthsOf(payloads) == [i \in 1..Len(payloads) |-> Len(payloads[i])]

\* The payloads yielded in the loop started last.
Yielded == output[Len(output)]

\* A loop over the provider has started.
Iterated == pc \in {"iterating", "stopped", "exhausted", "yielded after end"}

\* C15: Sweep(pattern, start, end) yields exactly end - start + 1 payloads,
\* of lengths start, start + 1, ..., end in that order, the payload of
\* length N being the first N bytes of the pattern repeated cyclically;
\* pattern "ab" with start 2 and end 5 yields lengths 2, 3, 4, 5, each a
\* prefix of "ababab".
C15_SweepYieldsGrowingPrefixes ==
    (input.kind = "Sweep" /\ pc \in {"iterating", "stopped"}) =>
        LET expected == SweepPayloads(input.pattern, input.start_size,
                                      input.end_size)
        IN /\ Len(Yielded) <= Len(expected)
           /\ Yielded = SubSeq(expected, 1, Len(Yielded))
           /\ pc = "stopped" =>
                 /\ Yielded = expected
                 /\ Len(Yielded) = input.end_size - input.start_size + 1
                 /\ LengthsOf(Yielded) =
                       [i \in 1..Len(Yielded) |-> input.start_size + i - 1]
           /\ (pc = "stopped" /\ input.pattern = <<97, 98>>
                  /\ input.start_size = 2 /\ input.end_size = 5) =>
                 /\ LengthsOf(Yielded) = <<2, 3, 4, 5>>
                 /\ \A i \in 1..4 :
                       Yielded[i] = SubSeq(<<97, 98, 97, 98, 97, 98>>, 1, i + 1)

\* C15's case: the loop over Sweep("ab", 2, 5) has ended.
C15_Witness ==
    /\ pc = "stopped"
    /\ input = ProviderArguments("Sweep", <<>>, <<97, 98>>, 0, 2, 5)
    /\ Len(Yielded) = 4
    /\ Yielded[4] = <<97, 98, 97, 98, 97>>

\* C16: constructing a Sweep with an end size smaller than the start size,
\* or with an empty pattern, raises at construction and gives no provider;
\* every construction with start <= end and a non-empty pattern succeeds.
C16_SweepConstruction ==
    (input.kind = "Sweep" /\ pc # "new") =>
        LET invalid == \/ input.end_size < input.start_size
                       \/ Len(input.pattern) = 0
        IN /\ invalid => /\ pc = "raised"
                         /\ error # NoError
                         /\ provider = NoProvider
                         /\ output = <<>>
           /\ ~invalid => /\ pc # "raised"
                          /\ error = NoError
                          /\ provider.kind = "Sweep"

\* C16's case: a construction with equal start and end sizes has succeeded
\* and the provider has yielded its only payload.
C16_Witness ==
    /\ input.kind = "Sweep"
    /\ pc = "stopped"
    /\ input.start_size = input.end_size
    /\ Len(Yielded) = 1

\* The finite sequence of a provider built from the given arguments.
ProviderSequence(arguments) ==
    IF arguments.kind = "List" THEN arguments.payloads
    ELSE IF arguments.kind = "Repeat"
    THEN [i \in 1..arguments.count |-> arguments.pattern]
    ELSE SweepPayloads(arguments.pattern, arguments.start_size,
                       arguments.end_size)

IsPrefix(a, b) == Len(a) <= Len(b) /\ a = SubSeq(b, 1, Len(a))

\* C22: in every loop over a provider, the first one and one started after
\* a loop was left part-way or was exhausted, the payloads yielded are the
\* provider's sequence from its first element (fixed list: the items in
\* order; repeat: the pattern count times; sweep: sizes start..end); when
\* the provider signals exhaustion the whole sequence has been yielded, and
\* every further request signals exhaustion again and yields nothing.
C22_FiniteRestartableSequences ==
    Iterated =>
        /\ \A k \in 1..Len(output) : IsPrefix(output[k], ProviderSequence(input))
        /\ pc \in {"stopped", "exhausted"} => Yielded = ProviderSequence(input)
        /\ pc # "yielded after end"
        /\ (pc = "exhausted" /\ input.kind = "Repeat" /\ input.pattern = <<88>>
               /\ input.count = 3) => Yielded = <<<<88>>, <<88>>, <<88>>>>

\* C22's case: the first loop over Repeat(b'X', 3) was left after one
\* payload, the second ran to the end, and a further request was answered
\* by exhaustion.
C22_Witness ==
    /\ pc = "exhausted"
    /\ input.kind = "Repeat"
    /\ output = << <<<<88>>>>, <<<<88>>, <<88>>, <<88>>>> >>

(***************************************************************************)
(* Claims about the checksum.                                              *)
(***************************************************************************)
\* The 16-bit big-endian words of a byte string, an odd final byte being the
\* high byte of a zero-padded word.
BigEndianWords(message) ==
    LET padded == IF Len(message) % 2 = 1 THEN Append(message, 0) ELSE message
    IN [k \in 1..(Len(padded) \div 2) |-> padded[2 * k - 1] * 256 + padded[2 * k]]

RECURSIVE SumOf(_)
SumOf(words) == IF words = <<>> THEN 0 ELSE Head(words) + SumOf(Tail(words))

\* A sum with every carry above 16 bits folded back in until none remains:
\* the end-around-carry sum, which is the sum modulo 0xFFFF with 0xFFFF in
\* place of 0 for a non-zero sum.
EndAroundCarry(sum) == IF sum = 0 THEN 0 ELSE ((sum - 1) % 65535) + 1

\* The reference checksum: one's complement of the folded sum of the words,
\* the two bytes exchanged.
ReferenceChecksum(message) ==
    LET complement == 65535 - EndAroundCarry(SumOf(BigEndianWords(message)))
    IN (complement % 256) * 256 + (complement \div 256)

\* C23: for every byte string, of even or odd length, checksum equals the
\* reference (sum of the big-endian 16-bit words, an odd final byte padded
\* with zero, carries folded in until none remains, one's complement, bytes
\* swapped), and lies in 0..0xFFFF.
C23_ChecksumIsReference ==
    pc = "checksum" =>
        /\ output = ReferenceChecksum(input)
        /\ output \in 0..65535

\* C23's case: the checksum of an odd-length string whose sum needs its
\* carry folded in: ff ff ff ff 01 sums to 0x200FE, folded 0x0100,
\* complemented 0xFEFF, swapped 0xFFFE.
C23_Witness ==
    /\ pc = "checksum"
    /\ input = <<255, 255, 255, 255, 1>>
    /\ output = 65534

(***************************************************************************)
(* Claims about the codec.                                                 *)
(***************************************************************************)
\* C17: for every packet p, decoding the frame made of a 20-byte outer
\* header followed by p's encoded bytes yields a packet whose is_valid is
\* true.
C17_DecodedPacketIsValid ==
    pc = "decoded" => output.is_valid = [value |-> TRUE]

\* C18: for every packet p, decoding p's encoded bytes with any single bit
\* flipped, in a header field or in the payload, yields a packet whose
\* is_valid is false.
C18_FlippedBitIsInvalid ==
    pc = "decoded flipped" => output.is_valid = [value |-> FALSE]

(***************************************************************************)
(* Claims about the ping command.                                          *)
(***************************************************************************)
\* PingCommand.run has ended: it returned, or an exception left it.
CommandEnded == pc \in {"returned", "raised"}

\* C19: when a session ends, by a normal return of run or by an error out
\* of the construction of the transport or out of run, the transport's raw
\* socket has been closed on that exit path; it is not left open for the
\* finalization of the object.
C19_SocketReleasedAtSessionEnd ==
    CommandEnded => socket # "open"

\* C20: after PingCommand.run has ended, by a normal return or by an error
\* (unresolvable destination, socket failure, decode failure), the
\* identifier it reserved is no longer in the registry.
C20_IdentifierReleasedAtEnd ==
    CommandEnded => ~ListHas(ids, seed_id)

\* A sweep range was given to the command and its end is smaller than its
\* start.
InvalidSweepGiven ==
    /\ input.sweep_start # 0
    /\ input.sweep_end # 0
    /\ input.sweep_end < input.sweep_start

\* C24: a PingCommand.run given a sweep range whose end is smaller than its
\* start ends with an error before any provider is chosen: it never goes on
\* with another payload provider, reserves an identifier, and runs the
\* session.
C24_InvalidSweepIsSurfaced ==
    InvalidSweepGiven =>
        /\ provider = NoProvider
        /\ pc \in {"command", "raised"}
        /\ pc = "raised" => error = "ValueError"

(***************************************************************************)
(* Claims about the replies the session records.                           *)
(***************************************************************************)
\* The step of listen_for and run that records a matched Response.
RecordsMatch == pc = "received" /\ pc' = "loop"

\* C25: a matched Response is recorded for an attempt only from a reply
\* that answers that attempt's own request, the one sent last: the delayed
\* reply to an earlier attempt that has timed out is not recorded as the
\* outcome of the attempt under way.
C25_RecordedReplyAnswersOwnRequest ==
    [][RecordsMatch => raw_received.seq = wire[Len(wire)].seq]_vars

\* C27: every recorded Response that carries a received packet carries a
\* valid one: its carried checksum equals the checksum recomputed over its
\* contents.
C27_RecordedPacketsAreValid ==
    \A i \in 1..ResponseCount :
        responses.responses[i].message # None =>
            is_valid(responses.responses[i].message[1].packet) = [value |-> TRUE]

\* C28: on the collection a run has left, the one left by a run over a
\* provider that yields no payload included, success returns a boolean and
\* does not raise under each of the policies one, most and all.
C28_SuccessReturnsBoolean ==
    Returned =>
        \A option \in SuccessRequest :
            ResponseList_success(responses, option) \in
                {[value |-> TRUE], [value |-> FALSE]}

(***************************************************************************)
(* Claims about concurrent commands.                                       *)
(***************************************************************************)
\* C26: two PingCommand runs executing concurrently in one process never
\* hold the same identifier as active at the same time, however their
\* reserve steps (pick, test membership, append) interleave.
C26_ActiveIdentifiersDiffer ==
    (pc[1] = "active" /\ pc[2] = "active") => seed_id[1] # seed_id[2]

(***************************************************************************)
(* Claims about progress of the session.                                   *)
(***************************************************************************)
\* run is executing.
Running == pc \in {"loop", "send", "listen", "received"}

\* C21: when every receive takes a positive amount of the remaining budget,
\* an attempt under way is left only by recording its Response, a match or a
\* timeout, and is left in the end, whatever frames arrive; and a run that
\* has started returns.
C21_AttemptsRecordAndRunTerminates ==
    /\ [][Listening => pc' \in {"listen", "received", "loop"}]_vars
    /\ Listening ~> (pc = "loop")
    /\ Running ~> (pc = "idle")

====
